---- MODULE Spec2Model ----
(***************************************************************************)
(* Model of src/main_V3.py: the recursive classify-and-route scan of a     *)
(* source folder into <base>/sorted_files.                                 *)
(*                                                                         *)
(* A file name is a sequence of string chunks ("a", ".png", "(1)", ...);   *)
(* the name's text is the concatenation of its chunks.  A path is a        *)
(* sequence of names.  The file system is a function from normalised paths *)
(* to nodes.  scan_path is recursive: the model keeps its call stack in    *)
(* `stack`, the pending call's argument in `cur`, and a propagating Python *)
(* exception in `exc`.                                                     *)
(***************************************************************************)
EXTENDS FiniteSets, Integers, Sequences, TLC

VARIABLES
    fs,            \* the file system: normalised path -> node
    dest0,         \* what the program found below <base>/sorted_files
    source_dir,    \* the path typed at the prompt (line 323)
    SORTED_ROOT,   \* global SORTED_ROOT (line 24, set at line 336)
    COUNTS,        \* global COUNTS (lines 11-20)
    pc,            \* "start", "scan", "done", "invalid", "crashed"
    cur,           \* argument of the pending scan_path call, or NoPath
    stack,         \* frames of the scan_path calls that wait for a callee
    exc,           \* TRUE while an exception propagates up the call stack
    tmpSeq,        \* number of scratch directories made so far
    visited,       \* paths scan_path handled past the exclusion guard
    skipped,       \* paths at which the exclusion guard returned
    writes,        \* every copy / relocation / extraction into the destination
    cards,         \* every classification made: path, node, result
    extractFailed, \* archives whose extract_archive raised
    failedRouted,  \* archives the except handler (lines 280-283) handled
    bepDirs        \* directories at which the BepInEx rule (218-225) fired

vars ==
    <<fs, dest0, source_dir, SORTED_ROOT, COUNTS, pc, cur, stack, exc, tmpSeq,
      visited, skipped, writes, cards, extractFailed, failedRouted, bepDirs>>

(* ------------------------------ bounds -------------------------------- *)

\* largest number of entries the source folder holds when the run starts
MaxEntries == 3

\* largest number of character-format markers in one file's bytes
MaxCharaCount == 2

(* ------------------------------ names --------------------------------- *)

NoPath == <<>>

Dot == <<".">>

BaseName == <<"base">>

SortedName == <<"sorted_files">>

BepInExName == <<"BepInEx">>

LogName == <<"sort_log", ".txt">>

TmpRoot == << <<"tmp">> >>

CountKeys ==
    {"Character", "Clothing", "Scene", "Mod", "Extra", "Archives", "Errors",
     "TotalFiles"}

\* the chunks that are a file extension (a dot followed by letters)
ExtChunks ==
    {".png", ".PNG", ".zip", ".7z", ".rar", ".zipmod", ".txt", ".xml", ".dll",
     ".unity3d"}

\* str.lower() on one chunk
LowerChunk(t) ==
    CASE t = "BepInEx" -> "bepinex"
      [] t = "BEPINEX" -> "bepinex"
      [] t = "KKScene_" -> "kkscene_"
      [] t = ".PNG" -> ".png"
      [] OTHER -> t

\* str.upper() on one chunk, for the chunks a file name can start with
UpperChunk(t) ==
    CASE t = "KKScene_" -> "KKSCENE_"
      [] t = "kkscene_" -> "KKSCENE_"
      [] t = "BepInEx" -> "BEPINEX"
      [] t = "bepinex" -> "BEPINEX"
      [] OTHER -> t

Lower(name) == [i \in 1..Len(name) |-> LowerChunk(name[i])]

\* "(k)" as written by f"{name}({counter}){ext}"
CounterChunk(k) == "(" \o ToString(k) \o ")"

IsPrefix(s, t) == Len(s) <= Len(t) /\ SubSeq(t, 1, Len(s)) = s

\* component-wise: p is root or lies below it
IsUnder(p, root) == root # NoPath /\ IsPrefix(root, p)

\* os.path.normpath on the paths the program builds: "." components vanish
normpath(p) == SelectSeq(p, LAMBDA c : c # Dot)

basename(p) == p[Len(p)]

join(p, entry) == Append(p, entry)

\* the text of a path: its names joined by the separator
RECURSIVE PathStr(_)
PathStr(p) ==
    IF p = <<>> THEN <<>>
    ELSE IF Len(p) = 1 THEN p[1]
    ELSE p[1] \o <<"/">> \o PathStr(Tail(p))

\* path.lower().endswith(suffix), suffix an extension
endswith(p, suffix) ==
    LET n == basename(p) IN LowerChunk(n[Len(n)]) = suffix

\* os.path.splitext: <<stem, ext>>; a leading dot starts no extension
splitext(filename) ==
    IF Len(filename) > 1 /\ filename[Len(filename)] \in ExtChunks
    THEN <<SubSeq(filename, 1, Len(filename) - 1), <<filename[Len(filename)]>>>>
    ELSE <<filename, <<>>>>

(* --------------------------- file system ------------------------------ *)

\* A node is a directory or a file.  A file's bytes are the sequence of the
\* chunks in them that matter (the markers the classifier searches for, or a
\* label that tells one content from another); size is the image size
\* PIL decodes, <<>> when the bytes are no image; readable is FALSE when
\* open() / os.listdir() on the node raises.

\* archive payload of a file: valid = FALSE when extraction raises
NoArc == [valid |-> FALSE, tree |-> {}]

DirNode(readable) ==
    [kind |-> "dir", readable |-> readable, data |-> <<>>, size |-> <<>>,
     arc |-> NoArc]

FileNode(data, readable, size, arc) ==
    [kind |-> "file", readable |-> readable, data |-> data, size |-> size,
     arc |-> arc]

\* marker in data
Has(data, marker) == \E i \in 1..Len(data) : data[i] = marker

\* data.count(marker)
Count(data, marker) == Cardinality({i \in 1..Len(data) : data[i] = marker})

E(path, node) == [path |-> path, node |-> node]

MkFs(entries) ==
    [p \in {e.path : e \in entries} |->
        (CHOOSE e \in entries : e.path = p).node]

Graft(root, tree) == {E(root \o e.path, e.node) : e \in tree}

Merge(f, entries) ==
    [p \in DOMAIN f \cup {e.path : e \in entries} |->
        IF \E e \in entries : e.path = p
        THEN (CHOOSE e \in entries : e.path = p).node
        ELSE f[p]]

RemoveTree(f, root) == [p \in {q \in DOMAIN f : ~IsUnder(q, root)} |-> f[p]]

Subtree(f, root) ==
    {E(SubSeq(p, Len(root) + 1, Len(p)), f[p]) :
        p \in {q \in DOMAIN f : IsUnder(q, root) /\ q # root}}

exists(f, p) == normpath(p) \in DOMAIN f

Node(f, p) == f[normpath(p)]

isdir(f, p) == exists(f, p) /\ Node(f, p).kind = "dir"

listdir(f, p) ==
    {q[Len(q)] : q \in {r \in DOMAIN f :
        Len(r) = Len(normpath(p)) + 1 /\ IsPrefix(normpath(p), r)}}

\* shutil.copy2 opens the source for reading first: it raises on a file
\* that cannot be read, before anything is written
copy2_fails(f, src) == ~Node(f, src).readable

copy2(f, src, dest) == Merge(f, {E(normpath(dest), Node(f, src))})

\* shutil.copytree(src, dest): dest is new, the whole subtree goes under it
copytree(f, src, dest) ==
    Merge(f, {E(normpath(dest), Node(f, src))}
             \cup Graft(normpath(dest), Subtree(f, normpath(src))))

\* ZipFile.extractall(dest) and its 7z / rar counterparts
extractall(f, tree, dest) ==
    Merge(f, {E(normpath(dest), DirNode(TRUE))} \cup Graft(normpath(dest), tree))

Inc(c, keys) == [k \in DOMAIN c |-> IF k \in keys THEN c[k] + 1 ELSE c[k]]

(* ------------------------ the program's functions --------------------- *)

\* setup_sorted_folders: the folder name of each category
FolderName ==
    [Character |-> <<"chara">>, Clothing |-> <<"cloth">>, Scene |-> <<"scene">>,
     Mod |-> <<"mod">>, Extra |-> <<"extra">>]

\* setup_sorted_folders: sorted_root, built from the path as typed
sorted_root == join(source_dir, SortedName)

\* setup_sorted_folders: the dictionary handed to scan_path
output_dirs == [c \in DOMAIN FolderName |-> join(sorted_root, FolderName[c])]

\* the while loop of unique_path, entered with counter = 1
RECURSIVE probe(_, _, _, _, _)
probe(f, folder, name, ext, counter) ==
    LET dest == join(folder, name \o <<CounterChunk(counter)>> \o ext)
    IN  IF exists(f, dest) THEN probe(f, folder, name, ext, counter + 1)
        ELSE dest

\* unique_path without its while loop: the plain destination, taken or not
unique_path_clobber(f, folder, filename) == join(folder, filename)

unique_path(f, folder, filename) ==
    LET sp == splitext(filename)
        dest == join(folder, filename)
    IN  IF exists(f, dest) THEN probe(f, folder, sp[1], sp[2], 1) ELSE dest

\* the score dictionary with Character inserted first
ScoreKeys_character_first == <<"Character", "Scene", "Clothing">>

\* the keys of the score dictionary, in insertion order
ScoreKeys == <<"Scene", "Character", "Clothing">>

\* max(score, key=score.get): the first key, in this order, of greatest value
FirstMax(score, keys) ==
    keys[CHOOSE i \in 1..Len(keys) :
            /\ \A j \in 1..Len(keys) : score[keys[j]] <= score[keys[i]]
            /\ \A j \in 1..(i - 1) : score[keys[j]] < score[keys[i]]]

\* the score dictionary of detect_koikatsu_card_type, lines 104-138
Score(node, filename) ==
    LET data == node.data
        sized == node.size # <<>>
        chara_count == Count(data, "KoiKatuChara") + Count(data, "KoikatuChara")
    IN  [Scene |->
            (IF Has(data, "KoiKatuScene") \/ Has(data, "KoikatuScene")
             THEN 4 ELSE 0)
            + (IF Has(data, "<constraints") \/ Has(data, "<itemInfo")
               THEN 3 ELSE 0)
            + (IF chara_count >= 2 THEN 4 ELSE 0)
            + (IF sized /\ node.size = <<320, 180>> THEN 3 ELSE 0)
            + (IF UpperChunk(filename[1]) = "KKSCENE_" THEN 1 ELSE 0),
         Character |->
            (IF Has(data, "KoiKatuChara") \/ Has(data, "KoikatuChara")
             THEN 3 ELSE 0)
            + (IF sized /\ node.size \in {<<252, 352>>, <<252, 353>>, <<504, 704>>}
               THEN 1 ELSE 0),
         Clothing |-> (IF Has(data, "KoiKatuClothes") THEN 4 ELSE 0)]

detect_koikatsu_card_type(node, filename) ==
    IF ~node.readable THEN "Unknown"
    ELSE LET score == Score(node, filename)
             card_type == FirstMax(score, ScoreKeys)
         IN  IF score[card_type] = 0 THEN "Unknown" ELSE card_type

is_pure_mod_zip(node) ==
    /\ node.arc.valid
    /\ {Lower(e.path[1]) : e \in node.arc.tree}
          = {<<"abdata">>, <<"manifest", ".xml">>}

\* an extract_archive whose errors are swallowed
extract_ok_swallowed(node) == TRUE

\* extract_archive does not raise
extract_ok(node) == node.arc.valid

\* the file system after extract_archive(path, tmp) into the fresh tmp
extract_archive(f, path, tmp) == extractall(f, Node(f, path).arc.tree, tmp)

\* the entries of a listing that the BepInEx test (lines 218-221, 256-259)
\* accepts
BepInExEntries(f, dir) ==
    {e \in listdir(f, dir) :
        Lower(e) = <<"bepinex">> /\ isdir(f, join(dir, e))}

\* the exclusion guard, lines 204-205
excluded(path) == IsPrefix(PathStr(SORTED_ROOT), PathStr(normpath(path)))

ArchiveSuffixes == {".zip", ".7z", ".rar"}

\* scan_path with the directory test placed above the exclusion guard
Branch_dir_first(path) ==
    IF isdir(fs, path) THEN "dir"
    ELSE IF excluded(path) THEN "excluded"
    ELSE IF endswith(path, ".zipmod") THEN "zipmod"
    ELSE IF \E s \in ArchiveSuffixes : endswith(path, s) THEN "archive"
    ELSE IF endswith(path, ".png") THEN "png"
    ELSE "other"

\* the branch of scan_path a path takes, in the order the code tests them
Branch(path) ==
    IF excluded(path) THEN "excluded"
    ELSE IF isdir(fs, path) THEN "dir"
    ELSE IF endswith(path, ".zipmod") THEN "zipmod"
    ELSE IF \E s \in ArchiveSuffixes : endswith(path, s) THEN "archive"
    ELSE IF endswith(path, ".png") THEN "png"
    ELSE "other"

(* ------------------------- the source folders -------------------------- *)

Dir == DirNode(TRUE)

ScenePng == FileNode(<<"KoiKatuScene">>, TRUE, <<>>, NoArc)

ScenePng2 ==
    FileNode(<<"KoiKatuChara", "KoikatuChara">>, TRUE, <<320, 180>>, NoArc)

CharaPng == FileNode(<<"KoiKatuChara">>, TRUE, <<252, 352>>, NoArc)

ClothPng == FileNode(<<"KoiKatuClothes">>, TRUE, <<>>, NoArc)

PlainPng == FileNode(<<"picture">>, TRUE, <<64, 64>>, NoArc)

LockedPng == FileNode(<<"KoikatuScene">>, FALSE, <<>>, NoArc)

Plain(label) == FileNode(<<label>>, TRUE, <<>>, NoArc)

Archive(label, tree) ==
    FileNode(<<label>>, TRUE, <<>>, [valid |-> TRUE, tree |-> tree])

BepTree(name) == {E(<<name>>, Dir), E(<<name, <<"core", ".dll">>>>, Plain("dll"))}

\* a .zip that is a complete mod package
ModZip ==
    Archive("m", {E(<< <<"abdata">> >>, Dir),
                  E(<< <<"abdata">>, <<"x", ".unity3d">> >>, Plain("bundle")),
                  E(<< <<"manifest", ".xml">> >>, Plain("manifest"))})

\* what the source folder can hold, each a subtree below one top-level name
Catalog ==
    { {E(<< <<"a", ".png">> >>, ScenePng)},
      {E(<< <<"u", ".png">> >>, PlainPng)},
      {E(<< <<"b", ".zip">> >>, Plain("broken zip"))},
      {E(<< <<"c", ".zipmod">> >>, Plain("zipmod"))},
      {E(<< <<"g", ".7z">> >>,
         Archive("g", {E(<< <<"a", ".png">> >>, ScenePng2),
                       E(<< <<"b", ".zip">> >>, Plain("inner broken zip")),
                       E(<< <<"m", ".zip">> >>, ModZip)}))},
      {E(<< <<"h", ".zip">> >>,
         Archive("h", {E(<< <<"k", ".png">> >>, CharaPng),
                       E(<< <<"u", ".png">> >>, PlainPng),
                       E(<< <<"x", ".png">> >>, LockedPng)}))},
      {E(<< <<"p", ".rar">> >>,
         Archive("p", BepTree(<<"bepinex">>)
                      \cup {E(<< <<"n", ".txt">> >>, Plain("note"))}))},
      BepTree(BepInExName),
      {E(<< <<"sub">> >>, Dir),
       E(<< <<"sub">>, <<"bepinex">> >>, Plain("a file named bepinex")),
       E(<< <<"sub">>, <<"d", ".png">> >>, ClothPng),
       E(<< <<"sub">>, <<"locked">> >>, DirNode(FALSE))},
      {E(<< <<"sorted_files", "_old">> >>, Dir),
       E(<< <<"sorted_files", "_old">>, <<"o", ".png">> >>, ScenePng)}
         \cup Graft(<< <<"sorted_files", "_old">> >>, BepTree(BepInExName)) }

\* what an earlier run left below sorted_files
PriorOutput ==
    {E(<<>>, Dir)}
    \cup {E(<<FolderName[c]>>, Dir) : c \in DOMAIN FolderName}
    \cup {E(<< <<"scene">>, <<"a", ".png">> >>, Plain("old a")),
          E(<< <<"scene">>, <<"a", "(1)", ".png">> >>, Plain("old a1")),
          E(<< <<"extra">>, <<"b", ".zip">> >>, Plain("old b")),
          E(<< <<"mod">>, <<"m">> >>, Dir),
          E(<< <<"mod">>, <<"c", ".zipmod">> >>, Plain("old c"))}
    \cup BepTree(BepInExName)

SourceFs(tree, prior) ==
    MkFs({E(<<BaseName>>, Dir), E(TmpRoot, Dir)}
         \cup Graft(<<BaseName>>, tree)
         \cup (IF prior THEN Graft(<<BaseName, SortedName>>, PriorOutput) ELSE {}))

\* what the user can type at the prompt
SourceInputs == {<<BaseName>>, <<Dot, BaseName>>, << <<"missing">> >>}

InitRun(f, input) ==
    /\ fs = f
    /\ dest0 = Subtree(f, <<BaseName, SortedName>>)
    /\ source_dir = input
    /\ SORTED_ROOT = NoPath
    /\ COUNTS = [k \in CountKeys |-> 0]
    /\ pc = "start"
    /\ cur = NoPath
    /\ stack = <<>>
    /\ exc = FALSE
    /\ tmpSeq = 0
    /\ visited = {}
    /\ skipped = {}
    /\ writes = {}
    /\ cards = {}
    /\ extractFailed = {}
    /\ failedRouted = {}
    /\ bepDirs = {}

\* the runs checked: the folder typed plainly, with or without an earlier
\* run's output in it; typed with a leading "./", with an earlier output;
\* and a path that is no folder
Init ==
    \E items \in {S \in SUBSET Catalog : Cardinality(S) <= MaxEntries},
       prior \in BOOLEAN, input \in SourceInputs :
        /\ input = <<Dot, BaseName>> => prior
        /\ input = << <<"missing">> >> => ~prior
        /\ InitRun(SourceFs(UNION items, prior), input)

(* ------------------------------ __main__ ------------------------------ *)

\* lines 327-333: the path typed is no directory
StartInvalid ==
    /\ pc = "start"
    /\ ~isdir(fs, source_dir)
    /\ pc' = "invalid"
    /\ UNCHANGED <<fs, dest0, source_dir, SORTED_ROOT, COUNTS, cur, stack, exc,
                   tmpSeq, visited, skipped, writes, cards, extractFailed,
                   failedRouted, bepDirs>>

\* os.makedirs(path, exist_ok=True) for each path of a set
makedirs(f, paths) ==
    Merge(f, {E(normpath(q), Dir) : q \in {r \in paths : ~exists(f, r)}})

\* lines 335-341: setup_sorted_folders, create_log_file, scan_path(source_dir)
Start ==
    /\ pc = "start"
    /\ isdir(fs, source_dir)
    /\ fs' = Merge(makedirs(fs, {sorted_root}
                                \cup {output_dirs[c] : c \in DOMAIN output_dirs}),
                   {E(normpath(join(sorted_root, LogName)), Plain("log header"))})
    /\ SORTED_ROOT' = normpath(sorted_root)
    /\ cur' = source_dir
    /\ pc' = "scan"
    /\ UNCHANGED <<dest0, source_dir, COUNTS, stack, exc, tmpSeq, visited, skipped,
                   writes, cards, extractFailed, failedRouted, bepDirs>>

\* lines 343-355: scan_path(source_dir) returned, the summary is logged
Finish ==
    /\ pc = "scan"
    /\ ~exc
    /\ cur = NoPath
    /\ stack = <<>>
    /\ fs' = Merge(fs, {E(normpath(join(sorted_root, LogName)),
                          Plain("log header and summary"))})
    /\ pc' = "done"
    /\ UNCHANGED <<dest0, source_dir, SORTED_ROOT, COUNTS, cur, stack, exc, tmpSeq,
                   visited, skipped, writes, cards, extractFailed, failedRouted,
                   bepDirs>>

\* an exception left scan_path(source_dir): the interpreter prints the
\* traceback and exits, lines 343-355 never run
Crash ==
    /\ pc = "scan"
    /\ exc
    /\ stack = <<>>
    /\ pc' = "crashed"
    /\ UNCHANGED <<fs, dest0, source_dir, SORTED_ROOT, COUNTS, cur, stack, exc,
                   tmpSeq, visited, skipped, writes, cards, extractFailed,
                   failedRouted, bepDirs>>

(* ------------------------------ scan_path ----------------------------- *)

Calling == pc = "scan" /\ ~exc /\ cur # NoPath

Returned == pc = "scan" /\ ~exc /\ cur = NoPath /\ stack # <<>>

Top == stack[Len(stack)]

Pop == SubSeq(stack, 1, Len(stack) - 1)

Frame(kind, path, todo, tmp) ==
    [kind |-> kind, path |-> path, todo |-> todo, tmp |-> tmp]

\* one write into the destination: where from, the folder and file name
\* handed to unique_path, the path written, the node put there, and the
\* names the folder held before
WriteRec(src, folder, filename, dest, node) ==
    [src |-> normpath(src), folder |-> normpath(folder), filename |-> filename,
     dest |-> normpath(dest), node |-> node, before |-> listdir(fs, folder)]

\* tempfile.TemporaryDirectory(): a fresh directory
TmpDir == join(TmpRoot, <<"tmp", CounterChunk(tmpSeq)>>)

\* lines 204-206
scan_path_excluded ==
    /\ Calling
    /\ Branch(cur) = "excluded"
    /\ cur' = NoPath
    /\ skipped' = skipped \cup {normpath(cur)}
    /\ UNCHANGED <<fs, dest0, source_dir, SORTED_ROOT, COUNTS, pc, stack, exc,
                   tmpSeq, visited, writes, cards, extractFailed, failedRouted,
                   bepDirs>>

\* lines 211-215: os.listdir raises
scan_path_unlistable ==
    /\ Calling
    /\ Branch(cur) = "dir"
    /\ ~Node(fs, cur).readable
    /\ cur' = NoPath
    /\ visited' = visited \cup {normpath(cur)}
    /\ UNCHANGED <<fs, dest0, source_dir, SORTED_ROOT, COUNTS, pc, stack, exc,
                   tmpSeq, skipped, writes, cards, extractFailed, failedRouted,
                   bepDirs>>

\* lines 218-225: the first listed entry that is a directory named bepinex
scan_path_bepinex ==
    /\ Calling
    /\ Branch(cur) = "dir"
    /\ Node(fs, cur).readable
    /\ \E entry \in BepInExEntries(fs, cur) :
        LET src == join(cur, entry)
            dest == unique_path(fs, SORTED_ROOT, BepInExName)
        IN  /\ fs' = copytree(fs, src, dest)
            /\ writes' = writes \cup {WriteRec(src, SORTED_ROOT, BepInExName, dest, Dir)}
    /\ COUNTS' = Inc(COUNTS, {"TotalFiles"})
    /\ cur' = NoPath
    /\ visited' = visited \cup {normpath(cur)}
    /\ bepDirs' = bepDirs \cup {normpath(cur)}
    /\ UNCHANGED <<dest0, source_dir, SORTED_ROOT, pc, stack, exc, tmpSeq, skipped,
                   cards, extractFailed, failedRouted>>

\* lines 228-229: the loop over the listing starts
scan_path_dir ==
    /\ Calling
    /\ Branch(cur) = "dir"
    /\ Node(fs, cur).readable
    /\ BepInExEntries(fs, cur) = {}
    /\ stack' = Append(stack, Frame("dir", cur, listdir(fs, cur), NoPath))
    /\ cur' = NoPath
    /\ visited' = visited \cup {normpath(cur)}
    /\ UNCHANGED <<fs, dest0, source_dir, SORTED_ROOT, COUNTS, pc, exc, tmpSeq,
                   skipped, writes, cards, extractFailed, failedRouted, bepDirs>>

\* line 229: the next entry, in the order os.listdir gave (any order)
dir_next ==
    /\ Returned
    /\ Top.kind = "dir"
    /\ \E entry \in Top.todo :
        /\ cur' = join(Top.path, entry)
        /\ stack' = [stack EXCEPT ![Len(stack)].todo = @ \ {entry}]
    /\ UNCHANGED <<fs, dest0, source_dir, SORTED_ROOT, COUNTS, pc, exc, tmpSeq,
                   visited, skipped, writes, cards, extractFailed, failedRouted,
                   bepDirs>>

\* line 230: the loop is over
dir_return ==
    /\ Returned
    /\ Top.kind = "dir"
    /\ Top.todo = {}
    /\ stack' = Pop
    /\ UNCHANGED <<fs, dest0, source_dir, SORTED_ROOT, COUNTS, pc, cur, exc, tmpSeq,
                   visited, skipped, writes, cards, extractFailed, failedRouted,
                   bepDirs>>

\* an exception raised below line 229 leaves the loop and the call
dir_unwind ==
    /\ pc = "scan"
    /\ exc
    /\ stack # <<>>
    /\ Top.kind = "dir"
    /\ stack' = Pop
    /\ UNCHANGED <<fs, dest0, source_dir, SORTED_ROOT, COUNTS, pc, cur, exc, tmpSeq,
                   visited, skipped, writes, cards, extractFailed, failedRouted,
                   bepDirs>>

\* lines 238-243
scan_path_zipmod ==
    /\ Calling
    /\ Branch(cur) = "zipmod"
    /\ LET filename == basename(cur)
           dest == unique_path(fs, output_dirs["Mod"], filename)
       IN  IF copy2_fails(fs, cur)
           THEN /\ exc' = TRUE
                /\ UNCHANGED <<fs, writes, COUNTS>>
           ELSE /\ fs' = copy2(fs, cur, dest)
                /\ writes' = writes \cup {WriteRec(cur, output_dirs["Mod"], filename, dest, Node(fs, cur))}
                /\ COUNTS' = Inc(COUNTS, {"Mod", "TotalFiles"})
                /\ exc' = FALSE
    /\ cur' = NoPath
    /\ visited' = visited \cup {normpath(cur)}
    /\ UNCHANGED <<dest0, source_dir, SORTED_ROOT, pc, stack, tmpSeq, skipped, cards,
                   extractFailed, failedRouted, bepDirs>>

\* lines 290-307
scan_path_png ==
    /\ Calling
    /\ Branch(cur) = "png"
    /\ LET filename == basename(cur)
           card_type == detect_koikatsu_card_type(Node(fs, cur), filename)
           dest_dir == IF card_type \in {"Character", "Clothing", "Scene"}
                       THEN output_dirs[card_type]
                       ELSE output_dirs["Extra"]
           dest == unique_path(fs, dest_dir, filename)
       IN  /\ cards' = cards \cup {[path |-> normpath(cur), node |-> Node(fs, cur),
                                    type |-> card_type]}
           /\ IF copy2_fails(fs, cur)
              THEN /\ exc' = TRUE
                   /\ UNCHANGED <<fs, writes, COUNTS>>
              ELSE /\ fs' = copy2(fs, cur, dest)
                   /\ writes' = writes \cup {WriteRec(cur, dest_dir, filename, dest, Node(fs, cur))}
                   /\ IF card_type \in DOMAIN COUNTS
                      THEN /\ COUNTS' = Inc(COUNTS, {card_type, "TotalFiles"})
                           /\ exc' = FALSE
                      ELSE \* COUNTS[card_type] raises KeyError at line 305
                           /\ COUNTS' = COUNTS
                           /\ exc' = TRUE
    /\ cur' = NoPath
    /\ visited' = visited \cup {normpath(cur)}
    /\ UNCHANGED <<dest0, source_dir, SORTED_ROOT, pc, stack, tmpSeq, skipped,
                   extractFailed, failedRouted, bepDirs>>

\* lines 312-315
scan_path_other ==
    /\ Calling
    /\ Branch(cur) = "other"
    /\ LET filename == basename(cur)
           dest == unique_path(fs, output_dirs["Extra"], filename)
       IN  IF copy2_fails(fs, cur)
           THEN /\ exc' = TRUE
                /\ UNCHANGED <<fs, writes, COUNTS>>
           ELSE /\ fs' = copy2(fs, cur, dest)
                /\ writes' = writes \cup {WriteRec(cur, output_dirs["Extra"], filename, dest, Node(fs, cur))}
                /\ COUNTS' = Inc(COUNTS, {"Extra", "TotalFiles"})
                /\ exc' = FALSE
    /\ cur' = NoPath
    /\ visited' = visited \cup {normpath(cur)}
    /\ UNCHANGED <<dest0, source_dir, SORTED_ROOT, pc, stack, tmpSeq, skipped, cards,
                   extractFailed, failedRouted, bepDirs>>

\* an except clause that also counts the archive as a processed file
except_counts_with_total == {"Errors", "TotalFiles"}

\* line 283: what the except clause counts
except_counts == {"Errors"}

\* lines 248-253 and 280-285: extract_archive raises, the handler copies the
\* archive to Extra; the scratch directory goes when the with block is left
scan_path_archive_failed ==
    /\ Calling
    /\ Branch(cur) = "archive"
    /\ ~extract_ok(Node(fs, cur))
    /\ LET filename == basename(cur)
           dest == unique_path(fs, output_dirs["Extra"], filename)
       IN  IF copy2_fails(fs, cur)
           THEN /\ exc' = TRUE
                /\ COUNTS' = Inc(COUNTS, {"Archives"})
                /\ UNCHANGED <<fs, writes>>
           ELSE /\ fs' = copy2(fs, cur, dest)
                /\ writes' = writes \cup {WriteRec(cur, output_dirs["Extra"], filename, dest, Node(fs, cur))}
                /\ COUNTS' = Inc(Inc(COUNTS, {"Archives"}), except_counts)
                /\ exc' = FALSE
    /\ cur' = NoPath
    /\ tmpSeq' = tmpSeq + 1
    /\ visited' = visited \cup {normpath(cur)}
    /\ extractFailed' = extractFailed \cup {normpath(cur)}
    /\ failedRouted' = failedRouted \cup {normpath(cur)}
    /\ UNCHANGED <<dest0, source_dir, SORTED_ROOT, pc, stack, skipped, cards, bepDirs>>

\* lines 248-263: the archive holds a top-level directory named bepinex
scan_path_archive_bepinex ==
    /\ Calling
    /\ Branch(cur) = "archive"
    /\ extract_ok(Node(fs, cur))
    /\ LET tmp == TmpDir
           f1 == extract_archive(fs, cur, tmp)
       IN  \E entry \in BepInExEntries(f1, tmp) :
            LET src == join(tmp, entry)
                dest == unique_path(f1, SORTED_ROOT, BepInExName)
            IN  /\ fs' = RemoveTree(copytree(f1, src, dest), tmp)
                /\ writes' = writes \cup {WriteRec(src, SORTED_ROOT, BepInExName, dest, Dir)}
    /\ COUNTS' = Inc(Inc(COUNTS, {"Archives"}), {"TotalFiles"})
    /\ cur' = NoPath
    /\ tmpSeq' = tmpSeq + 1
    /\ visited' = visited \cup {normpath(cur)}
    /\ UNCHANGED <<dest0, source_dir, SORTED_ROOT, pc, stack, exc, skipped, cards,
                   extractFailed, failedRouted, bepDirs>>

\* lines 266-275: a .zip whose top level is exactly abdata and manifest.xml
scan_path_archive_mod ==
    /\ Calling
    /\ Branch(cur) = "archive"
    /\ extract_ok(Node(fs, cur))
    /\ LET tmp == TmpDir
           f1 == extract_archive(fs, cur, tmp)
           filename == basename(cur)
           mod_name == splitext(filename)[1]
           dest_dir == unique_path(f1, output_dirs["Mod"], mod_name)
       IN  /\ BepInExEntries(f1, tmp) = {}
           /\ endswith(cur, ".zip")
           /\ is_pure_mod_zip(Node(fs, cur))
           /\ fs' = RemoveTree(extractall(f1, Node(fs, cur).arc.tree, dest_dir), tmp)
           /\ writes' = writes \cup {WriteRec(cur, output_dirs["Mod"], mod_name, dest_dir, Dir)}
    /\ COUNTS' = Inc(Inc(COUNTS, {"Archives"}), {"Mod", "TotalFiles"})
    /\ cur' = NoPath
    /\ tmpSeq' = tmpSeq + 1
    /\ visited' = visited \cup {normpath(cur)}
    /\ UNCHANGED <<dest0, source_dir, SORTED_ROOT, pc, stack, exc, skipped, cards,
                   extractFailed, failedRouted, bepDirs>>

\* line 278: scan_path(tmp, output_dirs), inside the try and the with block
scan_path_archive_scan ==
    /\ Calling
    /\ Branch(cur) = "archive"
    /\ extract_ok(Node(fs, cur))
    /\ LET tmp == TmpDir
           f1 == extract_archive(fs, cur, tmp)
       IN  /\ BepInExEntries(f1, tmp) = {}
           /\ ~(endswith(cur, ".zip") /\ is_pure_mod_zip(Node(fs, cur)))
           /\ fs' = f1
           /\ stack' = Append(stack, Frame("arc", cur, {}, tmp))
           /\ cur' = tmp
    /\ COUNTS' = Inc(COUNTS, {"Archives"})
    /\ tmpSeq' = tmpSeq + 1
    /\ visited' = visited \cup {normpath(cur)}
    /\ UNCHANGED <<dest0, source_dir, SORTED_ROOT, pc, exc, skipped, writes, cards,
                   extractFailed, failedRouted, bepDirs>>

\* line 285: scan_path(tmp) returned, the with block removes the scratch
archive_return ==
    /\ Returned
    /\ Top.kind = "arc"
    /\ fs' = RemoveTree(fs, Top.tmp)
    /\ stack' = Pop
    /\ UNCHANGED <<dest0, source_dir, SORTED_ROOT, COUNTS, pc, cur, exc, tmpSeq,
                   visited, skipped, writes, cards, extractFailed, failedRouted,
                   bepDirs>>

\* lines 280-285: an exception raised inside scan_path(tmp) reaches the
\* except clause of the archive that was being scanned
archive_except ==
    /\ pc = "scan"
    /\ exc
    /\ stack # <<>>
    /\ Top.kind = "arc"
    /\ LET path == Top.path
           filename == basename(path)
           dest == unique_path(fs, output_dirs["Extra"], filename)
       IN  IF copy2_fails(fs, path)
           THEN /\ exc' = TRUE
                /\ fs' = RemoveTree(fs, Top.tmp)
                /\ UNCHANGED <<writes, COUNTS>>
           ELSE /\ fs' = RemoveTree(copy2(fs, path, dest), Top.tmp)
                /\ writes' = writes \cup {WriteRec(path, output_dirs["Extra"], filename, dest, Node(fs, path))}
                /\ COUNTS' = Inc(COUNTS, except_counts)
                /\ exc' = FALSE
           /\ failedRouted' = failedRouted \cup {normpath(path)}
    /\ stack' = Pop
    /\ UNCHANGED <<dest0, source_dir, SORTED_ROOT, pc, cur, tmpSeq, visited, skipped,
                   cards, extractFailed, bepDirs>>

Next ==
    \/ StartInvalid
    \/ Start
    \/ Finish
    \/ Crash
    \/ scan_path_excluded
    \/ scan_path_unlistable
    \/ scan_path_bepinex
    \/ scan_path_dir
    \/ dir_next
    \/ dir_return
    \/ dir_unwind
    \/ scan_path_zipmod
    \/ scan_path_png
    \/ scan_path_other
    \/ scan_path_archive_failed
    \/ scan_path_archive_bepinex
    \/ scan_path_archive_mod
    \/ scan_path_archive_scan
    \/ archive_return
    \/ archive_except

Spec == Init /\ [][Next]_vars

(* -------------------- the classifier on one card ----------------------- *)

\* the image sizes a card can decode to; <<>> when the image does not decode
Dims == {<<>>, <<320, 180>>, <<252, 352>>, <<252, 353>>, <<504, 704>>, <<64, 64>>}

CardNames == {<<"k", ".png">>, <<"KKScene_", "k", ".PNG">>}

\* one of the given markers, or none
Maybe(markers) == {<<>>} \cup {<<m>> : m \in markers}

\* up to MaxCharaCount character-format markers, of either spelling
CharaRuns ==
    UNION {[1..n -> {"KoiKatuChara", "KoikatuChara"}] : n \in 0..MaxCharaCount}

\* a source folder that holds one image file, of any content
InitClassify ==
    \E scene \in Maybe({"KoiKatuScene", "KoikatuScene"}),
       xml \in Maybe({"<constraints", "<itemInfo"}),
       clothes \in Maybe({"KoiKatuClothes"}),
       chara \in CharaRuns, size \in Dims, readable \in BOOLEAN,
       name \in CardNames :
        InitRun(SourceFs({E(<<name>>,
                            FileNode(chara \o clothes \o scene \o xml, readable,
                                     size, NoArc))},
                         FALSE),
                <<BaseName>>)

NextClassify ==
    \/ Start
    \/ Finish
    \/ Crash
    \/ scan_path_excluded
    \/ scan_path_dir
    \/ dir_next
    \/ dir_return
    \/ dir_unwind
    \/ scan_path_png

SpecClassify == InitClassify /\ [][NextClassify]_vars

(* ------------------------------ claims -------------------------------- *)

ExtraDir == <<BaseName, SortedName, FolderName["Extra"]>>

ModDir == <<BaseName, SortedName, FolderName["Mod"]>>

\* the source folder of the end-to-end example: a.png with the scene-format
\* marker, the corrupt b.zip, c.zipmod, and no earlier output
C1_Source ==
    /\ dest0 = {}
    /\ source_dir = <<BaseName>>
    /\ listdir(fs, <<BaseName>>) \ {SortedName}
          = {<<"a", ".png">>, <<"b", ".zip">>, <<"c", ".zipmod">>}
    /\ fs[<<BaseName, <<"a", ".png">>>>] = ScenePng
    /\ fs[<<BaseName, <<"b", ".zip">>>>] = Plain("broken zip")
    /\ fs[<<BaseName, <<"c", ".zipmod">>>>] = Plain("zipmod")

C1_Routed ==
    /\ COUNTS["Scene"] = 1
    /\ COUNTS["Archives"] = 1
    /\ COUNTS["Errors"] = 1
    /\ COUNTS["Mod"] = 1
    /\ join(ExtraDir, <<"b", ".zip">>) \in DOMAIN fs
    /\ fs[join(ExtraDir, <<"b", ".zip">>)] = fs[<<BaseName, <<"b", ".zip">>>>]
    /\ join(ModDir, <<"c", ".zipmod">>) \in DOMAIN fs
    /\ fs[join(ModDir, <<"c", ".zipmod">>)] = fs[<<BaseName, <<"c", ".zipmod">>>>]

\* C1, as amended: after the run on a.png (scene marker), the corrupt b.zip
\* and c.zipmod, Scene = 1, Archives = 1, Errors = 1, Mod = 1 and
\* TotalFiles = 2 (the failed archive is not counted in TotalFiles); b.zip is
\* in Extra and c.zipmod in Mod, both unmodified.
C1_EndToEnd ==
    (pc = "done" /\ C1_Source) => (C1_Routed /\ COUNTS["TotalFiles"] = 2)

\* C1, as stated: the same run ends with TotalFiles = 3.
C1_AsStated ==
    (pc = "done" /\ C1_Source) => (C1_Routed /\ COUNTS["TotalFiles"] = 3)

C1_Witness == pc = "done" /\ C1_Source /\ COUNTS["Errors"] = 1

\* C2: an image file the classifier labels Unknown is copied into Extra
\* under a unique name, Extra and TotalFiles each go up by one, and the
\* visit returns normally.
C2_UnknownToExtra ==
    [][(/\ Calling
        /\ Branch(cur) = "png"
        /\ detect_koikatsu_card_type(Node(fs, cur), basename(cur)) = "Unknown")
       => (/\ COUNTS' = Inc(COUNTS, {"Extra", "TotalFiles"})
           /\ exc' = FALSE
           /\ \E w \in writes' \ writes :
                /\ w.src = normpath(cur)
                /\ w.folder = normpath(output_dirs["Extra"])
                /\ w.dest \in DOMAIN fs' \ DOMAIN fs)]_vars

\* C3: once startup validation has passed, no failure at an entry leaves the
\* visit of that entry, and the run never ends without its summary.
C3_Absorbed == ~exc /\ pc # "crashed"

\* C4: a visit of a path at or under SortedRoot returns without a copy, a
\* counter change or a recursion, and nothing at or under SortedRoot is ever
\* handled past the guard, classified, or the source of a copy.
C4_NeverReingested ==
    [][/\ (Calling /\ IsUnder(normpath(cur), SORTED_ROOT))
            => (/\ fs' = fs
                /\ COUNTS' = COUNTS
                /\ writes' = writes
                /\ stack' = stack
                /\ cur' = NoPath
                /\ exc' = FALSE)
       /\ \A p \in visited' : ~IsUnder(p, SORTED_ROOT')
       /\ \A c \in cards' : ~IsUnder(c.path, SORTED_ROOT')
       /\ \A w \in writes' : ~IsUnder(w.src, SORTED_ROOT')]_vars

\* SortedRoot, holding an earlier run's files, was visited and the run ended
C4_Witness ==
    /\ pc = "done"
    /\ SORTED_ROOT \in skipped
    /\ \E e \in dest0 : e.node.kind = "file"
    /\ writes # {}

\* C5: every write goes to the path unique_path names: folder/filename when
\* that is free, else the first free folder/stem(k)ext, k = 1, 2, ...; the
\* path did not exist before, no two writes share a path, and what a write or
\* an earlier run put in the destination stays as it was put.
C5_CollisionFree ==
    /\ \A w \in writes :
        LET sp == splitext(w.filename)
            numbered(k) == sp[1] \o <<CounterChunk(k)>> \o sp[2]
            d == basename(w.dest)
        IN  /\ w.dest = join(w.folder, d)
            /\ d \notin w.before
            /\ \/ d = w.filename
               \/ /\ w.filename \in w.before
                  /\ \E k \in 1..Cardinality(w.before) :
                        /\ d = numbered(k)
                        /\ \A j \in 1..(k - 1) : numbered(j) \in w.before
            /\ w.dest \in DOMAIN fs
            /\ fs[w.dest] = w.node
    /\ \A w1, w2 \in writes : w1.dest = w2.dest => w1 = w2
    /\ \A e \in dest0 :
        LET p == <<BaseName, SortedName>> \o e.path
        IN  p \in DOMAIN fs /\ fs[p] = e.node

\* a file was written as stem(2)ext, and two writes came from one file name
C5_Witness ==
    /\ \E w \in writes : basename(w.dest) = <<"a", "(2)", ".png">>
    /\ \E w1, w2 \in writes : w1 # w2 /\ w1.filename = w2.filename

HasBepInExDir(path) ==
    /\ isdir(fs, path)
    /\ Node(fs, path).readable
    /\ \E e \in listdir(fs, path) : Lower(e) = <<"bepinex">> /\ isdir(fs, join(path, e))

\* what the BepInEx rule does in one step of a visit
BepInExRelocated ==
    /\ COUNTS' = Inc(COUNTS, {"TotalFiles"})
    /\ stack' = stack
    /\ cur' = NoPath
    /\ exc' = FALSE
    /\ cards' = cards
    /\ \E w \in writes' :
        /\ writes' = writes \cup {w}
        /\ w \notin writes
        /\ Len(w.dest) = Len(SORTED_ROOT) + 1
        /\ IsUnder(w.dest, SORTED_ROOT)
        /\ w.dest \notin DOMAIN fs
        /\ Lower(basename(w.src)) = <<"bepinex">>
        /\ w.src = join(normpath(cur), basename(w.src))
        /\ fs' = copytree(fs, w.src, w.dest)

\* C6: a visit of a directory that is not under SortedRoot and holds a
\* directory named bepinex (any case) copies that directory once to a new
\* slot directly under SortedRoot, adds 1 to TotalFiles and to nothing else,
\* and visits none of the other entries.
C6_BepInExRule ==
    [][(/\ Calling
        /\ ~IsUnder(normpath(cur), SORTED_ROOT)
        /\ HasBepInExDir(cur))
       => BepInExRelocated]_vars

\* the same, for the directories the exclusion guard of line 205 lets
\* through; and a directory without a bepinex directory (a regular file of
\* that name does not count) is listed and recursed into, nothing is copied
C6_WhenGuardPasses ==
    [][/\ (Calling /\ ~excluded(cur) /\ HasBepInExDir(cur)) => BepInExRelocated
       /\ (/\ Calling
           /\ ~excluded(cur)
           /\ isdir(fs, cur)
           /\ Node(fs, cur).readable
           /\ ~HasBepInExDir(cur))
            => (/\ fs' = fs
                /\ COUNTS' = COUNTS
                /\ writes' = writes
                /\ stack' = Append(stack, Frame("dir", cur, listdir(fs, cur), NoPath)))
       /\ \A d \in bepDirs' : \A p \in visited' \cup skipped' :
            ~(Len(p) = Len(d) + 1 /\ IsUnder(p, d))]_vars

C8_SceneOverride ==
    \A c \in cards :
        (/\ c.node.readable
         /\ \/ Has(c.node.data, "KoiKatuScene")
            \/ Has(c.node.data, "KoikatuScene")
            \/ Count(c.node.data, "KoiKatuChara")
                 + Count(c.node.data, "KoikatuChara") >= 2)
            => c.type = "Scene"

\* a three-way tie at 4: two character markers, the clothes marker and a
\* character-card image size, without the scene marker
C8_Witness ==
    \E c \in cards :
        /\ c.node.readable
        /\ c.node.data = <<"KoiKatuChara", "KoikatuChara", "KoiKatuClothes">>
        /\ c.node.size = <<252, 352>>
        /\ basename(c.path) = <<"k", ".png">>
        /\ c.type = "Scene"
        /\ pc = "done"

\* C9: Errors counts the archives whose extraction failed, and only those
\* archives are copied to Extra by the except clause.
C9_ErrorsAreExtractionFailures ==
    /\ COUNTS["Errors"] = Cardinality(extractFailed)
    /\ failedRouted \subseteq extractFailed

\* C10: the exclusion guard returns only at SortedRoot and below it.
C10_OnlySortedRootSkipped == \A p \in skipped : IsUnder(p, SORTED_ROOT)

====
